---- MODULE Spec2Model ----
(***************************************************************************)
(* Model of the matrixWeatherBot core: the session loop (main.py,          *)
(* verify.py), the invite handler, the room-message dispatcher and the     *)
(* to-device verification handler (callbacks.py).                          *)
(***************************************************************************)
EXTENDS Integers, Sequences, FiniteSets, TLC

(***************************************************************************)
(* Bounds of the model                                                     *)
(***************************************************************************)
\* iterations of the session loop explored
MaxIters == 6
\* blank-line separated texts in a message body
MaxUnits == 3
\* to-device events delivered to the verification handler
MaxEvents == 3

(***************************************************************************)
(* State                                                                   *)
(***************************************************************************)
VARIABLES
    \* ---- session loop (main.py main, verify.py main_verify) ----
    prog,               \* which entry point runs: "main" or "main_verify"
    enable_encryption,  \* config.enable_encryption
    pc,                 \* position of the run
    error_retries,      \* the local error_retries
    pending,            \* what follows the finally block: "loop", "return_false", "raise"
    iters,              \* loop iterations started
    loginCount,         \* client.login calls issued
    closeCount,         \* client.close calls issued
    lastOp,             \* last transport operation issued
    lastLogin,          \* outcome of the last client.login call
    retriesBefore,      \* error_retries when the last client.login was issued
    exitReason,         \* why the run ended ("none" while running)
    cancelRaised,       \* a KeyboardInterrupt was raised in the loop
    opAfterCancel,      \* login / keys_upload / sync_forever issued after it
    onlyAuthFailures,   \* every login so far returned LoginError, nothing was raised
    streamed,           \* keys_upload or sync_forever was issued at some time
    awaitingRelogin,    \* a transient error was raised and no login issued since
    transientStreak,    \* transient errors raised in a row
    iterKeys,           \* key publication in this iteration:
                        \* "none", "not_needed", "done", "raised", "skipped"
    authFailsSinceOk,   \* logins that returned LoginError since the last login
                        \* that returned another response
    \* ---- invite handler (callbacks.py Callbacks.invite) ----
    invite_whitelist_enabled,  \* config.invite_whitelist_enabled
    invite_whitelist,          \* config.invite_whitelist
    inviteSender,              \* event.sender of the last invite ("none" before)
    inviteCalls,               \* membership calls the last invite issued, in order
    inviteRaised,              \* the last invite ended by an exception of a call
    \* ---- room-message dispatcher (callbacks.py Callbacks.message) ----
    command_prefix,     \* config.command_prefix, a string (sequence of characters)
    msgBody,            \* event.body
    msgSender,          \* event.sender
    msgIsGroup,         \* room.is_group
    msgHandled,         \* the callback has run on the event
    routed,             \* pipeline invocations of the callback, in order
    msgRaised,          \* exception that left the callback ("none" if it returned)
    \* ---- to-device verification handler (Callbacks.to_device_callback) ----
    vCount,             \* events delivered to the handler
    vTrace,             \* per transaction id: events delivered and what the
                        \* handler did for each, in order
    vLast               \* the last delivery: event, inputs, calls, outcome

sessionVars == <<prog, enable_encryption, pc, error_retries, pending, iters,
                 loginCount, closeCount, lastOp, lastLogin, retriesBefore,
                 exitReason, cancelRaised, opAfterCancel, onlyAuthFailures,
                 streamed, awaitingRelogin, transientStreak, iterKeys,
                 authFailsSinceOk>>

inviteVars == <<invite_whitelist_enabled, invite_whitelist, inviteSender,
                inviteCalls, inviteRaised>>

messageVars == <<command_prefix, msgBody, msgSender, msgIsGroup, msgHandled,
                 routed, msgRaised>>

verifyVars == <<vCount, vTrace, vLast>>

vars == <<sessionVars, inviteVars, messageVars, verifyVars>>

(***************************************************************************)
(* Invite handler: callbacks.py lines 197-230                              *)
(***************************************************************************)
Users == {"@alice:hs", "@mallory:hs"}

\* result of client.room_leave / client.join: a response, a typed error
\* response (RoomLeaveError / JoinError), or an exception
CallResults == {"ok", "err", "raise"}

\* `for attempt in range(3)` of the reject loop and of the join loop
LeaveAttempts == 3
JoinAttempts == 3

Min(S) == CHOOSE x \in S : \A y \in S : x <= y

\* a loop that goes through all its attempts, success or not
AttemptsNoBreak(res) == res

\* The attempts a `for attempt in range(n)` loop makes when the i-th call
\* gives res[i]: the loop goes on after a typed error and stops at the first
\* other result (return / break after a success, or the exception)
Attempts(res) ==
    LET stops == {i \in 1..Len(res) : res[i] # "err"}
    IN  IF stops = {} THEN res ELSE SubSeq(res, 1, Min(stops))

Tagged(op, res) == [i \in 1..Len(res) |-> [op |-> op, res |-> res[i]]]

\* `if (self.config.invite_whitelist_enabled) and
\*      (event.sender not in self.config.invite_whitelist):`
MustReject(enabled, whitelist, sender) == enabled /\ sender \notin whitelist

\* The calls of one run of Callbacks.invite.  The reject loop returns only
\* on a successful room_leave; when all its attempts give RoomLeaveError the
\* for loop ends and control falls through to the join loop.
InviteHandler(enabled, whitelist, sender, lres, jres) ==
    LET leaves == IF MustReject(enabled, whitelist, sender)
                  THEN Attempts(lres) ELSE <<>>
        ended  == leaves # <<>> /\ leaves[Len(leaves)] # "err"
        joins  == IF ended THEN <<>> ELSE Attempts(jres)
    IN  Tagged("room_leave", leaves) \o Tagged("join", joins)

Invite(sender, lres, jres) ==
    LET calls == InviteHandler(invite_whitelist_enabled, invite_whitelist,
                               sender, lres, jres)
    IN  /\ inviteSender' = sender
        /\ inviteCalls' = calls
        /\ inviteRaised' = (calls[Len(calls)].res = "raise")
        /\ UNCHANGED <<invite_whitelist_enabled, invite_whitelist>>
        /\ UNCHANGED <<sessionVars, messageVars, verifyVars>>

(***************************************************************************)
(* Session loop: main.py lines 27-120, verify.py lines 44-132              *)
(***************************************************************************)
Progs == {"main", "main_verify"}

\* the retry limit of `if error_retries < 3`
LoginRetryLimit == 3

\* a single retry
MayRetryLoginOnce(r) == r < 1

\* the test written with <= in place of <
MayRetryLoginLe(r) == r <= LoginRetryLimit

\* `if error_retries < 3:`
MayRetryLogin(r) == r < LoginRetryLimit

\* (ClientConnectionError, ServerDisconnectedError, AttributeError, asyncio.TimeoutError)
TransientErrors == {"ClientConnectionError", "ServerDisconnectedError",
                    "AttributeError", "TimeoutError"}

\* what a client call inside the outer try may raise; "Exception" stands for
\* any exception class no except clause of the loop names
Raised == TransientErrors \cup {"KeyboardInterrupt", "Exception"}

LoginOutcomes == {"ok", "LoginError", "LocalProtocolError"} \cup Raised

\* a LocalProtocolError of login that ends the run whatever the configuration
CapabilityFatalAlways(enc) == TRUE

\* `if config.enable_encryption:` in `except LocalProtocolError`
CapabilityFatal(enc) == enc

\* main.py has `except KeyboardInterrupt` in the loop, verify.py has not
CatchesKeyboardInterrupt(p) == p = "main"

\* the loop without its `except (ClientConnectionError, ...)` clause
OuterRaiseNoCatch(e) ==
    /\ cancelRaised' = (cancelRaised \/ e = "KeyboardInterrupt")
    /\ IF e = "KeyboardInterrupt" /\ CatchesKeyboardInterrupt(prog)
       THEN /\ pc' = "close"
            /\ pending' = "loop"
            /\ exitReason' = exitReason
       ELSE /\ pc' = "close"
            /\ pending' = "raise"
            /\ exitReason' = IF e = "KeyboardInterrupt" THEN "cancelled" ELSE "fault"

\* An exception raised inside the outer try (and not caught by the inner
\* try): where the run goes and what follows the finally block.
\*   transient error  -> logged, sleep(15) inside the except clause
\*   KeyboardInterrupt -> main.py: logged, falls to finally, loop goes on
\*                        verify.py: not caught, finally, propagates
\*   anything else    -> not caught: finally, propagates out of the run
OuterRaise(e) ==
    /\ cancelRaised' = (cancelRaised \/ e = "KeyboardInterrupt")
    /\ IF e \in TransientErrors
       THEN /\ pc' = "sleep_reconnect"
            /\ pending' = "loop"
            /\ exitReason' = exitReason
       ELSE IF e = "KeyboardInterrupt" /\ CatchesKeyboardInterrupt(prog)
       THEN /\ pc' = "close"
            /\ pending' = "loop"
            /\ exitReason' = exitReason
       ELSE /\ pc' = "close"
            /\ pending' = "raise"
            /\ exitReason' = IF e = "KeyboardInterrupt" THEN "cancelled" ELSE "fault"

\* a transient error raised by a request: counted, and a login is awaited
NoteRaise(e) ==
    /\ awaitingRelogin' = (awaitingRelogin \/ e \in TransientErrors)
    /\ transientStreak' = IF e \in TransientErrors THEN transientStreak + 1
                          ELSE transientStreak

\* a request to the server issued after a KeyboardInterrupt was raised
NoteOp == opAfterCancel' = (opAfterCancel \/ cancelRaised)

\* callbacks = Callbacks(client, store, config)   (main.py line 56)
\* callbacks = Callbacks(client)                  (verify.py line 72):
\* Callbacks.__init__(self, client, store, config) has no defaults, so the
\* call of verify.py raises TypeError before the loop is entered.
Construct ==
    /\ pc = "construct"
    /\ IF prog = "main"
       THEN /\ pc' = "login"
            /\ exitReason' = exitReason
       ELSE /\ pc' = "done"
            /\ exitReason' = "fault"
    /\ UNCHANGED <<prog, enable_encryption, error_retries, pending, iters,
                   loginCount, closeCount, lastOp, lastLogin, retriesBefore, cancelRaised,
                   opAfterCancel, onlyAuthFailures, streamed, awaitingRelogin,
                   transientStreak, iterKeys,
                   authFailsSinceOk>>
    /\ UNCHANGED <<inviteVars, messageVars, verifyVars>>

\* a transient error of login that sets the counter back to 0
RetriesAfterLoginResetOnRaise(r, o) ==
    IF o = "ok" \/ o \in TransientErrors THEN 0
    ELSE IF o = "LoginError" /\ MayRetryLogin(r) THEN r + 1
    ELSE r

\* error_retries after one client.login: `error_retries += 1` under
\* `if error_retries < 3` for a LoginError (lines 75-78), `error_retries = 0`
\* for any other response (lines 83-84); no except clause assigns it
RetriesAfterLogin(r, o) ==
    IF o = "ok" THEN 0
    ELSE IF o = "LoginError" /\ MayRetryLogin(r) THEN r + 1
    ELSE r

\* client.login(...) and the handling of its result, up to the next await
Login(o) ==
    /\ pc = "login"
    /\ iters < MaxIters
    /\ iters' = iters + 1
    /\ loginCount' = loginCount + 1
    /\ lastOp' = "login"
    /\ lastLogin' = o
    /\ retriesBefore' = error_retries
    /\ NoteOp
    /\ onlyAuthFailures' = (onlyAuthFailures /\ o = "LoginError")
    /\ awaitingRelogin' = (o \in TransientErrors)
    /\ transientStreak' = IF o \in TransientErrors THEN transientStreak + 1 ELSE 0
    /\ iterKeys' = "none"
    /\ authFailsSinceOk' = IF o = "ok" THEN 0
                           ELSE IF o = "LoginError" THEN authFailsSinceOk + 1
                           ELSE authFailsSinceOk
    /\ error_retries' = RetriesAfterLogin(error_retries, o)
    /\ CASE o = "ok" ->
              /\ pc' = "keys"
              /\ UNCHANGED <<pending, exitReason, cancelRaised>>
         [] o = "LoginError" ->
              IF MayRetryLogin(error_retries)
              THEN /\ pc' = "sleep_retry"
                   /\ UNCHANGED <<pending, exitReason, cancelRaised>>
              ELSE /\ pc' = "close"
                   /\ pending' = "return_false"
                   /\ exitReason' = "auth_exhausted"
                   /\ UNCHANGED cancelRaised
         [] o = "LocalProtocolError" ->
              IF CapabilityFatal(enable_encryption)
              THEN /\ pc' = "close"
                   /\ pending' = "return_false"
                   /\ exitReason' = "capability"
                   /\ UNCHANGED cancelRaised
              ELSE /\ pc' = "keys"
                   /\ UNCHANGED <<pending, exitReason, cancelRaised>>
         [] o \in Raised ->
              OuterRaise(o)
    /\ UNCHANGED <<prog, enable_encryption, closeCount, streamed>>
    /\ UNCHANGED <<inviteVars, messageVars, verifyVars>>

\* a `continue` that reaches the next iteration without the finally block
SleepRetryNoFinally(o) ==
    /\ pc = "sleep_retry"
    /\ pc' = "login"
    /\ UNCHANGED <<prog, enable_encryption, error_retries, pending, iters,
                   loginCount, closeCount, lastOp, lastLogin, retriesBefore, exitReason,
                   cancelRaised, opAfterCancel, onlyAuthFailures, streamed,
                   awaitingRelogin, transientStreak, iterKeys,
                   authFailsSinceOk>>
    /\ UNCHANGED <<inviteVars, messageVars, verifyVars>>

\* await sleep(15); continue      (main.py lines 79-80)
\* the sleep is inside the outer try: continue runs the finally block
SleepRetry(o) ==
    /\ pc = "sleep_retry"
    /\ IF o = "ok"
       THEN /\ pc' = "close"
            /\ pending' = "loop"
            /\ UNCHANGED <<exitReason, cancelRaised>>
       ELSE OuterRaise("KeyboardInterrupt")
    /\ onlyAuthFailures' = (onlyAuthFailures /\ o = "ok")
    /\ UNCHANGED <<prog, enable_encryption, error_retries, iters, loginCount,
                   closeCount, lastOp, lastLogin, retriesBefore, opAfterCancel,
                   streamed, awaitingRelogin, transientStreak, iterKeys,
                   authFailsSinceOk>>
    /\ UNCHANGED <<inviteVars, messageVars, verifyVars>>

\* the publication of keys left out: polling starts right after login
KeysUploadSkipped(should, o) ==
    /\ pc = "keys"
    /\ pc' = "sync"
    /\ iterKeys' = IF should THEN "skipped" ELSE "not_needed"
    /\ UNCHANGED <<prog, enable_encryption, error_retries, pending, iters,
                   loginCount, closeCount, lastOp, lastLogin, retriesBefore,
                   exitReason, cancelRaised, opAfterCancel, onlyAuthFailures,
                   streamed, awaitingRelogin, transientStreak,
                   authFailsSinceOk>>
    /\ UNCHANGED <<inviteVars, messageVars, verifyVars>>

\* if client.should_upload_keys: await client.keys_upload()
KeysUpload(should, o) ==
    /\ pc = "keys"
    /\ IF ~should
       THEN /\ pc' = "sync"
            /\ iterKeys' = "not_needed"
            /\ UNCHANGED <<lastOp, opAfterCancel, pending, exitReason, cancelRaised,
                           streamed, awaitingRelogin, transientStreak>>
       ELSE /\ lastOp' = "keys_upload"
            /\ streamed' = TRUE
            /\ NoteOp
            /\ IF o = "ok"
               THEN /\ pc' = "sync"
                    /\ iterKeys' = "done"
                    /\ UNCHANGED <<pending, exitReason, cancelRaised,
                                   awaitingRelogin, transientStreak>>
               ELSE /\ OuterRaise(o)
                    /\ NoteRaise(o)
                    /\ iterKeys' = "raised"
    /\ UNCHANGED <<prog, enable_encryption, error_retries, iters, loginCount,
                   closeCount, lastLogin, retriesBefore, onlyAuthFailures,
                   authFailsSinceOk>>
    /\ UNCHANGED <<inviteVars, messageVars, verifyVars>>

\* await client.sync_forever(timeout=30000, full_state=True): polls and
\* dispatches events until something is raised (by the transport or by an
\* event callback it runs)
SyncForever(o) ==
    /\ pc = "sync"
    /\ lastOp' = "sync_forever"
    /\ NoteOp
    /\ OuterRaise(o)
    /\ NoteRaise(o)
    /\ streamed' = TRUE
    /\ UNCHANGED <<prog, enable_encryption, error_retries, iters, loginCount,
                   closeCount, lastLogin, retriesBefore, onlyAuthFailures, iterKeys,
                   authFailsSinceOk>>
    /\ UNCHANGED <<inviteVars, messageVars, verifyVars>>

\* a reconnection that reaches the next login without the finally block
SleepReconnectNoFinally(o) ==
    /\ pc = "sleep_reconnect"
    /\ pc' = "login"
    /\ UNCHANGED <<prog, enable_encryption, error_retries, pending, iters,
                   loginCount, closeCount, lastOp, lastLogin, retriesBefore,
                   exitReason, cancelRaised, opAfterCancel, onlyAuthFailures,
                   streamed, awaitingRelogin, transientStreak, iterKeys,
                   authFailsSinceOk>>
    /\ UNCHANGED <<inviteVars, messageVars, verifyVars>>

\* await sleep(15) inside `except (ClientConnectionError, ...)`: an
\* exception raised here is not caught by the sibling except clauses
SleepReconnect(o) ==
    /\ pc = "sleep_reconnect"
    /\ pc' = "close"
    /\ IF o = "ok"
       THEN /\ pending' = "loop"
            /\ UNCHANGED <<exitReason, cancelRaised>>
       ELSE /\ pending' = "raise"
            /\ exitReason' = "cancelled"
            /\ cancelRaised' = TRUE
    /\ UNCHANGED <<prog, enable_encryption, error_retries, iters, loginCount,
                   closeCount, lastOp, lastLogin, retriesBefore, opAfterCancel,
                   onlyAuthFailures, streamed, awaitingRelogin, transientStreak,
                   iterKeys,
                   authFailsSinceOk>>
    /\ UNCHANGED <<inviteVars, messageVars, verifyVars>>

\* finally: await client.close()   -- inside the while loop
Close ==
    /\ pc = "close"
    /\ closeCount' = closeCount + 1
    /\ lastOp' = "close"
    /\ pc' = IF pending = "loop" THEN "login" ELSE "done"
    /\ UNCHANGED <<prog, enable_encryption, error_retries, pending, iters,
                   loginCount, lastLogin, retriesBefore, exitReason, cancelRaised,
                   opAfterCancel, onlyAuthFailures, streamed, awaitingRelogin,
                   transientStreak, iterKeys,
                   authFailsSinceOk>>
    /\ UNCHANGED <<inviteVars, messageVars, verifyVars>>

(***************************************************************************)
(* Room-message dispatcher: callbacks.py lines 162-195,                    *)
(* bot_commands.py lines 42-56                                             *)
(***************************************************************************)
\* self.client.user
Bot == "@bot:hs"

NL == "\n"

\* msg.startswith(self.command_prefix)
StartsWith(msg, prefix) ==
    /\ Len(msg) >= Len(prefix)
    /\ SubSeq(msg, 1, Len(prefix)) = prefix

\* msg[len(self.command_prefix):]
StripPrefix(msg, prefix) == SubSeq(msg, Len(prefix) + 1, Len(msg))

\* str.split() gives no word: the string holds whitespace only
IsBlank(text) == \A i \in 1..Len(text) : text[i] \in {" ", NL}

\* Command.process: `trigger = self.command.lower().split(maxsplit=1)[0]`
\* raises IndexError when the command text has no word; otherwise one of
\* the command bodies replies
CommandProcess(text) == IF IsBlank(text) THEN "IndexError" ELSE "none"

\* the dispatcher without the test of the sender
MessageHandlerNoSelfCheck(prefix, sender, body, is_group) ==
    IF ~StartsWith(body, prefix)
    THEN <<[pipe |-> "message", text |-> body]>>
    ELSE <<[pipe |-> "command", text |-> StripPrefix(body, prefix)]>>

\* the dispatcher that forwards unprefixed text in direct rooms only
MessageHandlerDirectOnly(prefix, sender, body, is_group) ==
    IF sender = Bot
    THEN <<>>
    ELSE IF ~StartsWith(body, prefix)
    THEN IF is_group THEN <<>> ELSE <<[pipe |-> "message", text |-> body]>>
    ELSE <<[pipe |-> "command", text |-> StripPrefix(body, prefix)]>>

\* the dispatcher with the test `and not room.is_group` in force
MessageHandlerGroupAsCommand(prefix, sender, body, is_group) ==
    IF sender = Bot
    THEN <<>>
    ELSE IF ~StartsWith(body, prefix) /\ ~is_group
    THEN <<[pipe |-> "message", text |-> body]>>
    ELSE <<[pipe |-> "command",
            text |-> IF StartsWith(body, prefix)
                     THEN StripPrefix(body, prefix) ELSE body]>>

\* The pipeline invocations of one run of Callbacks.message:
\*   sender is the bot           -> return
\*   no prefix (is_group is not consulted: the test is commented out)
\*                               -> Message(...).process() on the whole body
\*   prefix                      -> Command(...).process() on the body
\*                                  without the prefix
MessageHandler(prefix, sender, body, is_group) ==
    IF sender = Bot
    THEN <<>>
    ELSE IF ~StartsWith(body, prefix)
    THEN <<[pipe |-> "message", text |-> body]>>
    ELSE <<[pipe |-> "command", text |-> StripPrefix(body, prefix)]>>

Message ==
    LET r == MessageHandler(command_prefix, msgSender, msgBody, msgIsGroup)
    IN  /\ ~msgHandled
        /\ msgHandled' = TRUE
        /\ routed' = r
        /\ msgRaised' = IF r # <<>> /\ r[1].pipe = "command"
                        THEN CommandProcess(r[1].text) ELSE "none"
        /\ UNCHANGED <<command_prefix, msgBody, msgSender, msgIsGroup>>
        /\ UNCHANGED <<sessionVars, inviteVars, verifyVars>>

(***************************************************************************)
(* To-device verification handler: callbacks.py lines 24-161               *)
(***************************************************************************)
TxIds == {"t1", "t2"}

EventKinds == {"Start", "Cancel", "Key", "Mac", "Other"}

\* result of an awaited client call: a response, a ToDeviceError response,
\* or an exception (nio raises LocalProtocolError)
ClientResults == {"ok", "ToDeviceError", "raise"}

\* what input() gives: a line, or an exception (EOFError, KeyboardInterrupt)
Answers == {"y", "Y", "n", "", "raise"}

\* str.lower() on the answers
Lower(a) == IF a = "Y" THEN "y" ELSE a

\* the module namespace with the nio classes and traceback imported
ModuleGlobalsWithNio ==
    {"send_text_to_room", "Command", "JoinError", "RoomLeaveError", "Message",
     "logging", "logger", "Callbacks",
     "KeyVerificationStart", "KeyVerificationCancel", "KeyVerificationKey",
     "KeyVerificationMac", "ToDeviceError", "traceback"}

\* The names bound in the module callbacks.py: its imports (lines 1-6),
\* logger (line 8) and the class (line 11).  The handler also reads
\* KeyVerificationStart, KeyVerificationCancel, KeyVerificationKey,
\* KeyVerificationMac, ToDeviceError and traceback, which the module never
\* imports and which are no builtins.
ModuleGlobals ==
    {"send_text_to_room", "Command", "JoinError", "RoomLeaveError", "Message",
     "logging", "logger", "Callbacks"}

\* reading a global name: NameError unless the module binds it
Bound(name) == name \in ModuleGlobals

Ret(calls) == [calls |-> calls, exc |-> "none"]

Exc(calls, e) == [calls |-> calls, exc |-> e]

\* `resp = await client.<call>(...)` followed by
\* `if isinstance(resp, ToDeviceError): print(...)`, then the rest
AfterCall(calls, r, rest) ==
    IF r = "raise" THEN Exc(calls, "LocalProtocolError")
    ELSE IF ~Bound("ToDeviceError") THEN Exc(calls, "NameError")
    ELSE rest

\* lines 59-73: first step, KeyVerificationStart
StartBranch(ev, env) ==
    IF ~ev.emoji
    THEN Ret(<<>>)
    ELSE AfterCall(<<"accept">>, env.r1,
           IF ~env.tracked THEN Exc(<<"accept">>, "KeyError")
           ELSE IF env.eng = "raise" THEN Exc(<<"accept">>, "LocalProtocolError")
           ELSE AfterCall(<<"accept", "send_key">>, env.r2,
                          Ret(<<"accept", "send_key">>)))

\* lines 89-92: KeyVerificationCancel, cancel_key_verification(reject=False)
CancelBranch(ev, env) ==
    AfterCall(<<"cancel">>, env.r1, Ret(<<"cancel">>))

\* lines 107-125: second step, KeyVerificationKey.  Every answer other than
\* y / Y cancels with reject=True.
KeyBranch(ev, env) ==
    IF ~env.tracked THEN Exc(<<>>, "KeyError")
    ELSE IF env.eng = "raise" THEN Exc(<<>>, "LocalProtocolError")
    ELSE IF env.yn = "raise" THEN Exc(<<"prompt">>, "KeyboardInterrupt")
    ELSE IF Lower(env.yn) = "y"
    THEN AfterCall(<<"prompt", "confirm">>, env.r1,
                   Ret(<<"prompt", "confirm">>))
    ELSE AfterCall(<<"prompt", "cancel_reject">>, env.r1,
                   Ret(<<"prompt", "cancel_reject">>))

\* lines 142-156: third step, KeyVerificationMac
MacBranch(ev, env) ==
    IF ~env.tracked THEN Exc(<<>>, "KeyError")
    ELSE IF env.eng = "raise" THEN Exc(<<>>, "LocalProtocolError")
    ELSE AfterCall(<<"send_mac">>, env.r1, Ret(<<"send_mac", "summary">>))

\* the body of the try statement: the isinstance chain of lines 29-159; each
\* test reads the name of an event class
TryBody(ev, env) ==
    IF ~Bound("KeyVerificationStart") THEN Exc(<<>>, "NameError")
    ELSE IF ev.kind = "Start" THEN StartBranch(ev, env)
    ELSE IF ~Bound("KeyVerificationCancel") THEN Exc(<<>>, "NameError")
    ELSE IF ev.kind = "Cancel" THEN CancelBranch(ev, env)
    ELSE IF ~Bound("KeyVerificationKey") THEN Exc(<<>>, "NameError")
    ELSE IF ev.kind = "Key" THEN KeyBranch(ev, env)
    ELSE IF ~Bound("KeyVerificationMac") THEN Exc(<<>>, "NameError")
    ELSE IF ev.kind = "Mac" THEN MacBranch(ev, env)
    ELSE Ret(<<>>)

\* One run of to_device_callback.  `except BaseException:` catches whatever
\* the body raised and runs `print(traceback.format_exc())`, which reads the
\* name traceback: unbound, it raises NameError out of the handler.
ToDeviceCallback(ev, env) ==
    LET r == TryBody(ev, env)
    IN  [calls   |-> r.calls,
         caught  |-> r.exc,
         escaped |-> IF r.exc = "none" \/ Bound("traceback")
                     THEN "none" ELSE "NameError"]

\* the defaults of the inputs a branch does not read
NoEnv == [tracked |-> FALSE, eng |-> "ok", yn |-> "", r1 |-> "ok", r2 |-> "ok"]

\* what one delivery leaves behind: the event and the handler's calls are
\* appended to the transaction's trace
Delivered(ev, env) ==
    LET r == ToDeviceCallback(ev, env)
        items == <<ev.kind>> \o r.calls
                     \o (IF r.escaped = "none" THEN <<>> ELSE <<"escaped">>)
    IN  /\ vCount' = vCount + 1
        /\ vTrace' = [vTrace EXCEPT ![ev.tx] = @ \o items]
        /\ vLast' = [kind |-> ev.kind, tx |-> ev.tx, emoji |-> ev.emoji,
                     tracked |-> env.tracked, env |-> env,
                     calls |-> r.calls, caught |-> r.caught,
                     escaped |-> r.escaped]

DeliverStart(tx, emoji, tracked, eng, r1, r2) ==
    /\ vCount < MaxEvents
    /\ Delivered([kind |-> "Start", tx |-> tx, emoji |-> emoji],
                 [NoEnv EXCEPT !.tracked = tracked, !.eng = eng,
                               !.r1 = r1, !.r2 = r2])
    /\ UNCHANGED <<sessionVars, inviteVars, messageVars>>

DeliverCancel(tx, r1) ==
    /\ vCount < MaxEvents
    /\ Delivered([kind |-> "Cancel", tx |-> tx, emoji |-> FALSE],
                 [NoEnv EXCEPT !.r1 = r1])
    /\ UNCHANGED <<sessionVars, inviteVars, messageVars>>

DeliverKey(tx, tracked, eng, yn, r1) ==
    /\ vCount < MaxEvents
    /\ Delivered([kind |-> "Key", tx |-> tx, emoji |-> FALSE],
                 [NoEnv EXCEPT !.tracked = tracked, !.eng = eng,
                               !.yn = yn, !.r1 = r1])
    /\ UNCHANGED <<sessionVars, inviteVars, messageVars>>

DeliverMac(tx, tracked, eng, r1) ==
    /\ vCount < MaxEvents
    /\ Delivered([kind |-> "Mac", tx |-> tx, emoji |-> FALSE],
                 [NoEnv EXCEPT !.tracked = tracked, !.eng = eng, !.r1 = r1])
    /\ UNCHANGED <<sessionVars, inviteVars, messageVars>>

DeliverOther(tx) ==
    /\ vCount < MaxEvents
    /\ Delivered([kind |-> "Other", tx |-> tx, emoji |-> FALSE], NoEnv)
    /\ UNCHANGED <<sessionVars, inviteVars, messageVars>>

(***************************************************************************)
(* Initial states and specifications                                       *)
(***************************************************************************)
IdleInvite ==
    /\ invite_whitelist_enabled = FALSE
    /\ invite_whitelist = {}
    /\ inviteSender = "none"
    /\ inviteCalls = <<>>
    /\ inviteRaised = FALSE

InitInviteVars ==
    /\ invite_whitelist_enabled \in BOOLEAN
    /\ invite_whitelist \in SUBSET Users
    /\ inviteSender = "none"
    /\ inviteCalls = <<>>
    /\ inviteRaised = FALSE

NextInvite ==
    \E sender \in Users,
       lres \in [1..LeaveAttempts -> CallResults],
       jres \in [1..JoinAttempts -> CallResults] : Invite(sender, lres, jres)

IdleSession ==
    /\ prog = "main"
    /\ enable_encryption = FALSE
    /\ pc = "construct"
    /\ error_retries = 0
    /\ pending = "loop"
    /\ iters = 0
    /\ loginCount = 0
    /\ closeCount = 0
    /\ lastOp = "none"
    /\ lastLogin = "none"
    /\ retriesBefore = 0
    /\ exitReason = "none"
    /\ cancelRaised = FALSE
    /\ opAfterCancel = FALSE
    /\ onlyAuthFailures = TRUE
    /\ streamed = FALSE
    /\ awaitingRelogin = FALSE
    /\ transientStreak = 0
    /\ iterKeys = "none"
    /\ authFailsSinceOk = 0

InitSessionVars ==
    /\ prog \in Progs
    /\ enable_encryption \in BOOLEAN
    /\ pc = "construct"
    /\ error_retries = 0
    /\ pending = "loop"
    /\ iters = 0
    /\ loginCount = 0
    /\ closeCount = 0
    /\ lastOp = "none"
    /\ lastLogin = "none"
    /\ retriesBefore = 0
    /\ exitReason = "none"
    /\ cancelRaised = FALSE
    /\ opAfterCancel = FALSE
    /\ onlyAuthFailures = TRUE
    /\ streamed = FALSE
    /\ awaitingRelogin = FALSE
    /\ transientStreak = 0
    /\ iterKeys = "none"
    /\ authFailsSinceOk = 0

NextSession ==
    \/ Construct
    \/ \E o \in LoginOutcomes : Login(o)
    \/ \E o \in {"ok", "KeyboardInterrupt"} : SleepRetry(o)
    \/ \E should \in BOOLEAN, o \in {"ok"} \cup Raised : KeysUpload(should, o)
    \/ \E o \in Raised : SyncForever(o)
    \/ \E o \in {"ok", "KeyboardInterrupt"} : SleepReconnect(o)
    \/ Close

\* message bodies: up to MaxUnits texts joined by a blank line
UnitTexts == {<<>>, <<"c">>, <<"!">>, <<"!", "c">>, <<"!", " ", "c">>,
              <<"!", " ">>, <<NL, "c">>}

RECURSIVE Join(_)
Join(us) ==
    IF Len(us) = 1 THEN us[1] ELSE us[1] \o <<NL, NL>> \o Join(Tail(us))

Bodies ==
    {Join(us) : us \in UNION {[1..n -> UnitTexts] : n \in 1..MaxUnits}}

Prefixes == {<<"!">>, <<"!", "c">>}

IdleMessage ==
    /\ command_prefix = <<"!">>
    /\ msgBody = <<>>
    /\ msgSender = Bot
    /\ msgIsGroup = FALSE
    /\ msgHandled = FALSE
    /\ routed = <<>>
    /\ msgRaised = "none"

InitMessageVars ==
    /\ command_prefix \in Prefixes
    /\ msgBody \in Bodies
    /\ msgSender \in Users \cup {Bot}
    /\ msgIsGroup \in BOOLEAN
    /\ msgHandled = FALSE
    /\ routed = <<>>
    /\ msgRaised = "none"

NextMessage ==
    \/ Message

IdleVerify ==
    /\ vCount = 0
    /\ vTrace = [t \in TxIds |-> <<>>]
    /\ vLast = [kind |-> "none", tx |-> "none", emoji |-> FALSE,
                tracked |-> FALSE, env |-> NoEnv,
                calls |-> <<>>, caught |-> "none", escaped |-> "none"]

NextVerify ==
    \/ \E tx \in TxIds, emoji, tracked \in BOOLEAN, eng \in {"ok", "raise"},
          r1, r2 \in ClientResults : DeliverStart(tx, emoji, tracked, eng, r1, r2)
    \/ \E tx \in TxIds, r1 \in ClientResults : DeliverCancel(tx, r1)
    \/ \E tx \in TxIds, tracked \in BOOLEAN, eng \in {"ok", "raise"},
          yn \in Answers, r1 \in ClientResults : DeliverKey(tx, tracked, eng, yn, r1)
    \/ \E tx \in TxIds, tracked \in BOOLEAN, eng \in {"ok", "raise"},
          r1 \in ClientResults : DeliverMac(tx, tracked, eng, r1)
    \/ \E tx \in TxIds : DeliverOther(tx)

InitInvite == InitInviteVars /\ IdleSession /\ IdleMessage /\ IdleVerify

InitSession == InitSessionVars /\ IdleInvite /\ IdleMessage /\ IdleVerify

InitMessage == InitMessageVars /\ IdleSession /\ IdleInvite /\ IdleVerify

InitVerify == IdleVerify /\ IdleSession /\ IdleInvite /\ IdleMessage

SpecInvite == InitInvite /\ [][NextInvite]_vars

SpecSession == InitSession /\ [][NextSession]_vars

SpecMessage == InitMessage /\ [][NextMessage]_vars

SpecVerify == InitVerify /\ [][NextVerify]_vars

(***************************************************************************)
(* Claims: invite handler                                                  *)
(***************************************************************************)
InviteHandled == inviteSender # "none"

CountOp(calls, op) == Cardinality({i \in 1..Len(calls) : calls[i].op = op})

NoCallRaised == \A i \in 1..Len(inviteCalls) : inviteCalls[i].res # "raise"

InviteRejected ==
    InviteHandled /\ invite_whitelist_enabled /\ inviteSender \notin invite_whitelist

InviteAdmitted ==
    InviteHandled /\ (~invite_whitelist_enabled \/ inviteSender \in invite_whitelist)

\* C1: an invite from a sender outside the whitelist, with the whitelist
\* policy enabled and every membership call returning success or a typed
\* failure, issues at most 3 room_leave calls and no join call.
C1_RejectNeverJoins ==
    (InviteRejected /\ NoCallRaised) =>
        /\ CountOp(inviteCalls, "room_leave") <= 3
        /\ CountOp(inviteCalls, "join") = 0

\* C2: an invite from a whitelisted sender, or one that arrives while the
\* whitelist policy is disabled, issues at most 3 join calls, no call after
\* the first successful join, and no room_leave call.
C2_AdmitBoundedJoins ==
    InviteAdmitted =>
        /\ CountOp(inviteCalls, "join") <= 3
        /\ CountOp(inviteCalls, "room_leave") = 0
        /\ \A i \in 1..Len(inviteCalls) :
               inviteCalls[i].res = "ok" => i = Len(inviteCalls)

\* a whitelisted sender whose join fails twice and then succeeds
C2_Witness ==
    /\ InviteAdmitted
    /\ invite_whitelist_enabled
    /\ inviteCalls = <<[op |-> "join", res |-> "err"],
                       [op |-> "join", res |-> "err"],
                       [op |-> "join", res |-> "ok"]>>

C5_NoRequestAfterCancel == ~opAfterCancel

\* C6: main ends only by exhausted authentication retries, by a capability
\* error with encryption requested, or by external cancellation; no other
\* failure propagates out of the run.
C6_EndsOnlyByAuthCapabilityCancel ==
    (prog = "main" /\ pc = "done") =>
        exitReason \in {"auth_exhausted", "capability", "cancelled"}

(***************************************************************************)
(* Claims: room-message dispatcher                                         *)
(***************************************************************************)
\* the texts between the blank lines of a body, as str.split("\n\n") cuts it
RECURSIVE SplitUnits(_)
SplitUnits(b) ==
    LET cuts == {i \in 1..(Len(b) - 1) : b[i] = NL /\ b[i + 1] = NL}
    IN  IF cuts = {}
        THEN <<b>>
        ELSE <<SubSeq(b, 1, Min(cuts) - 1)>>
                 \o SplitUnits(SubSeq(b, Min(cuts) + 2, Len(b)))

MessageFromOther == msgHandled /\ msgSender # Bot

\* C10 (as claimed): the body is split on every double newline and every
\* unit gets its own routing decision, in order: as many decisions as units,
\* the i-th one a command exactly when the i-th unit has the prefix.
C10_OneDecisionPerUnit ==
    MessageFromOther =>
        LET units == SplitUnits(msgBody)
        IN  /\ Len(routed) = Len(units)
            /\ \A i \in 1..Len(units) :
                   (routed[i].pipe = "command") <=> StartsWith(units[i], command_prefix)

\* C10 (amended): the body is not split: an event from another sender gets
\* exactly one routing decision, taken on the whole body, and the text
\* handed to the pipeline is the whole body (less the prefix for a command),
\* double newlines included.
C10_OneDecisionPerEvent ==
    MessageFromOther =>
        /\ Len(routed) = 1
        /\ \/ routed[1].pipe = "message" /\ routed[1].text = msgBody
           \/ routed[1].pipe = "command" /\ command_prefix \o routed[1].text = msgBody

\* the body "!c\n\nc\n\n!c" with prefix "!" handled as one command
C10_Witness ==
    /\ MessageFromOther
    /\ command_prefix = <<"!">>
    /\ msgBody = <<"!", "c", NL, NL, "c", NL, NL, "!", "c">>
    /\ routed = <<[pipe |-> "command",
                   text |-> <<"c", NL, NL, "c", NL, NL, "!", "c">>]>>

(***************************************************************************)
(* Claims: to-device verification handler                                  *)
(***************************************************************************)
\* the phase a transaction enters with an item of its trace: by a step the
\* handler completed, or by the peer's Cancel event
PhaseOf(item) ==
    CASE item = "accept"                               -> "Started"
      [] item = "send_key"                             -> "KeyExchanged"
      [] item = "prompt"                               -> "AwaitingHumanDecision"
      [] item = "confirm"                              -> "Confirmed"
      [] item \in {"Cancel", "cancel", "cancel_reject"} -> "Cancelled"
      [] item = "send_mac"                             -> "MacExchanged"
      [] OTHER                                         -> "-"

PhaseRank(ph) ==
    CASE ph = "Started"               -> 1
      [] ph = "KeyExchanged"          -> 2
      [] ph = "AwaitingHumanDecision" -> 3
      [] ph \in {"Confirmed", "Cancelled"} -> 4
      [] ph = "MacExchanged"          -> 5
      [] OTHER                        -> 0

IsPhase(ph) == ph # "-"

\* the phases a transaction went through, in order
PhasesOf(tr) == SelectSeq([i \in 1..Len(tr) |-> PhaseOf(tr[i])], IsPhase)

C8_HandlerNeverRaises ==
    /\ vLast.escaped = "none"
    /\ (vLast.kind = "Key" /\ ~vLast.tracked) => vLast.calls = <<>>

\* the delivery that starts at position i of a trace let a fault escape
EscapedAt(tr, i) ==
    \E k \in (i + 1)..Len(tr) :
        /\ tr[k] = "escaped"
        /\ \A m \in (i + 1)..(k - 1) : tr[m] \notin EventKinds

CountItem(tr, item) == Cardinality({i \in 1..Len(tr) : tr[i] = item})

\* C9: per transaction id the MAC payload is sent at most once and the
\* status summary printed at most once, and a Mac event delivered again does
\* not raise.
C9_MacIdempotent ==
    \A t \in TxIds :
        LET tr == vTrace[t]
        IN  /\ CountItem(tr, "send_mac") <= 1
            /\ CountItem(tr, "summary") <= 1
            /\ \A i, j \in 1..Len(tr) :
                   (i < j /\ tr[i] = "Mac" /\ tr[j] = "Mac") => ~EscapedAt(tr, j)

\* C11: an event whose sender is the bot itself reaches neither the command
\* pipeline nor the general-message pipeline, whatever its body and room.
C11_OwnMessagesDiscarded ==
    (msgHandled /\ msgSender = Bot) => (routed = <<>> /\ msgRaised = "none")

\* the bot's own prefixed message in a group room, handled
C11_Witness ==
    /\ msgHandled
    /\ msgSender = Bot
    /\ msgIsGroup
    /\ msgBody = <<"!", "c">>
    /\ command_prefix = <<"!">>

MessageUnprefixed == MessageFromOther /\ ~StartsWith(msgBody, command_prefix)

RECURSIVE LStrip(_)
LStrip(text) ==
    IF text # <<>> /\ Head(text) \in {" ", NL} THEN LStrip(Tail(text)) ELSE text

\* C13: text with the prefix is forwarded to the command pipeline without
\* the prefix and without leading whitespace; when nothing remains the text
\* is dropped: the command pipeline is not invoked and nothing is raised.
C13_CommandStrippedOrDropped ==
    (MessageFromOther /\ StartsWith(msgBody, command_prefix)) =>
        LET rest == LStrip(StripPrefix(msgBody, command_prefix))
        IN  /\ msgRaised = "none"
            /\ routed = IF rest = <<>>
                        THEN <<>>
                        ELSE <<[pipe |-> "command", text |-> rest]>>

InCalls(call) == \E i \in 1..Len(vLast.calls) : vLast.calls[i] = call

\* C14: on a Key event for a tracked transaction the human decision fixes
\* the call: accept gives confirm, reject gives cancel with reject=True, any
\* other answer (no response included) gives cancel with reject=False.
C14_DecisionDeterminesCall ==
    (vLast.kind = "Key" /\ vLast.tracked /\ vLast.env.eng = "ok") =>
        CASE Lower(vLast.env.yn) = "y" ->
                 InCalls("confirm") /\ ~InCalls("cancel") /\ ~InCalls("cancel_reject")
          [] vLast.env.yn = "n" ->
                 InCalls("cancel_reject") /\ ~InCalls("confirm") /\ ~InCalls("cancel")
          [] OTHER ->
                 InCalls("cancel") /\ ~InCalls("confirm") /\ ~InCalls("cancel_reject")

RunGoesOnToLogin ==
    /\ pc \in {"sleep_reconnect", "close", "login"}
    /\ pending = "loop"
    /\ exitReason = "none"

PollingReached == pc = "sync" \/ lastOp = "sync_forever"

C19_StartEmojiGate ==
    vLast.kind = "Start" =>
        /\ ~vLast.emoji => vLast.calls = <<>>
        /\ (vLast.emoji /\ vLast.tracked /\ vLast.env.eng = "ok"
                /\ vLast.env.r1 # "raise")
               => (InCalls("accept") /\ InCalls("send_key"))

\* C20: a Mac event whose MAC payload the engine fails to compute sends
\* nothing, prints no summary and returns normally.
C20_MacFailureSilent ==
    (vLast.kind = "Mac" /\ vLast.tracked /\ vLast.env.eng = "raise") =>
        (vLast.calls = <<>> /\ vLast.escaped = "none")

\* C21: a stop signal (KeyboardInterrupt) raised while the handler waits at
\* the prompt of a Key event is not absorbed: it leaves the handler as
\* KeyboardInterrupt, for the session loop to see, and no confirm is issued.
C21_StopSignalNotAbsorbed ==
    (vLast.kind = "Key" /\ vLast.tracked /\ vLast.env.eng = "ok"
         /\ vLast.env.yn = "raise") =>
        /\ InCalls("prompt")
        /\ vLast.escaped = "KeyboardInterrupt"
        /\ ~InCalls("confirm")

Cancels == InCalls("cancel") \/ InCalls("cancel_reject")

\* C24: confirm is issued only by the delivery of a Key event whose answer
\* was accept, for that event's transaction; a Key event on a tracked
\* transaction issues exactly one of confirm and cancel; no Start, Cancel,
\* Mac or unrecognized event issues a confirm.
C24_ConfirmOnlyOnAcceptedKey ==
    /\ InCalls("confirm") => (vLast.kind = "Key" /\ Lower(vLast.env.yn) = "y")
    /\ (vLast.kind = "Key" /\ vLast.tracked) => (InCalls("confirm") # Cancels)
    /\ \A t \in TxIds :
           \A j \in 1..Len(vTrace[t]) :
               vTrace[t][j] = "confirm" =>
                   \E i \in 1..(j - 1) :
                       /\ vTrace[t][i] = "Key"
                       /\ \A m \in (i + 1)..(j - 1) : vTrace[t][m] \notin EventKinds

====
